---- MODULE Spec2Model ----
(***************************************************************************)
(* Model of .github/helpers/pep8_nb_style_checker.py: the PEP8 style check *)
(* of the code cells of a Jupyter notebook.                                *)
(*                                                                         *)
(* Text is modelled as a sequence of tokens.  A token is one character     *)
(* ("x" stands for any ordinary code character, "t" for narrative text) or *)
(* one word that the script's regular expressions look for as a whole      *)
(* ("flake8-ignore", "flake-8-check", "noqa", a rule code).  A file is the *)
(* concatenation of what was written to it; a missing file is Absent.      *)
(* Cell indices and code_cell_num are 0-based as in the script; TLA+       *)
(* sequences are 1-based, so list[i] of the script is list[i + 1] here.    *)
(***************************************************************************)
EXTENDS Integers, Sequences, FiniteSets, TLC

VARIABLES
    nb,              \* the notebook file on disk: a sequence of cells
    pc,              \* position of the current run in the script
    run,             \* number of the current invocation (also its clock)
    argv,            \* the command line: is the suffix .ipynb, is -u given
    update_notebook, \* args.update_notebook of the current run
    og_nb,           \* the notebook as loaded by the current run
    code_file,       \* <stem>_scripted.py
    warn_file,       \* <stem>_pep8.txt
    code_cells,      \* indices of the scanned cells
    warns,           \* the warnings read from warn_file, then filtered
    borderlines,     \* script lines found to be separators
    nu_output_dict,  \* cell index -> warning texts gathered for that cell
    stdout,          \* what the run printed
    exit_status,     \* exit status of the run, -1 while it runs
    flake8_seen,     \* what flake8 answered for which script (it is a function)
    start_nb,        \* the notebook file as the current run found it
    traceback        \* source line of the uncaught exception, 0 for none

vars == <<nb, pc, run, argv, update_notebook, og_nb, code_file, warn_file, code_cells,
          warns, borderlines, nu_output_dict, stdout, exit_status, flake8_seen, start_nb, traceback>>

(***************************************************************************)
(* Bounds of the model.                                                    *)
(***************************************************************************)
MaxCells == 2
MaxWarns == 2
MaxRuns == 2

(***************************************************************************)
(* Text helpers: Python's str methods on token sequences.                  *)
(***************************************************************************)
Rep(c, n) == [i \in 1..n |-> c]

IsSpace(c) == c \in {" ", "\n"}

RECURSIVE LStrip(_)
LStrip(s) ==
    IF s # <<>> /\ IsSpace(Head(s)) THEN LStrip(Tail(s)) ELSE s

RECURSIVE RStrip(_)
RStrip(s) ==
    IF s # <<>> /\ IsSpace(s[Len(s)]) THEN RStrip(SubSeq(s, 1, Len(s) - 1)) ELSE s

Strip(s) == RStrip(LStrip(s))

StartsWith(s, p) == Len(s) >= Len(p) /\ SubSeq(s, 1, Len(p)) = p

EndsWith(s, p) == Len(s) >= Len(p) /\ SubSeq(s, Len(s) - Len(p) + 1, Len(s)) = p

RECURSIVE Concat(_)
Concat(ss) == IF ss = <<>> THEN <<>> ELSE Head(ss) \o Concat(Tail(ss))

\* file.readlines(): the lines of a text, each with its closing newline
LineEnds(data) ==
    {i \in 1..Len(data) : data[i] = "\n" \/ i = Len(data)}

RECURSIVE LinesBetween(_, _, _)
LinesBetween(data, ends, from) ==
    IF ends = {} THEN <<>>
    ELSE LET e == CHOOSE i \in ends : \A j \in ends : i <= j
         IN <<SubSeq(data, from, e)>> \o LinesBetween(data, ends \ {e}, e + 1)

ReadLines(data) == LinesBetween(data, LineEnds(data), 1)

Absent == [exists |-> FALSE, data |-> <<>>]

File(data) == [exists |-> TRUE, data |-> data]

(***************************************************************************)
(* The separator line and the buffer.                                      *)
(***************************************************************************)
identifier == "flake-8-check"

identifier_len == 13

line_length == 80

fill_0 == (line_length \div 2 - 1) - (identifier_len \div 2)

fill_1 == (line_length \div 2 - 1) - ((identifier_len + 1) \div 2)

separator ==
    <<"#", " ">> \o Rep("#", fill_0) \o <<identifier>> \o Rep("#", fill_1) \o <<"\n">>

buffer_lines == 3

(***************************************************************************)
(* check_cell_content: re.search('^(?!(?:\n)$)', line) finds a match at    *)
(* position 0 unless the line is a newline followed by the end of the      *)
(* string ($ also matches just before a last newline).                     *)
(***************************************************************************)
NewlineOnly(line) == line = <<"\n">> \/ line = <<"\n", "\n">>

check_cell_content(source) ==
    \E k \in 1..Len(source) : ~NewlineOnly(source[k])

(***************************************************************************)
(* The extractor.                                                          *)
(***************************************************************************)
Scanned(cl) ==
    /\ cl.cell_type = "code"
    /\ cl.source # <<>>
    /\ check_cell_content(cl.source)

\* re.search('^# flake8-ignore', top_line): the end of the match, 0 for None
noqa_check(top_line) ==
    IF StartsWith(top_line, <<"#", " ", "flake8-ignore">>) THEN 3 ELSE 0

noqa_comment(top_line) ==
    IF noqa_check(top_line) = 0 THEN <<>>
    ELSE <<" ", " ", "#", " ", "noqa">>
         \o SubSeq(top_line, noqa_check(top_line) + 1, Len(top_line))

\* comment out lines with IPython magic commands
MagicLine(ln) ==
    IF Len(Strip(ln)) = 0 THEN ln
    ELSE IF Strip(ln)[1] \notin {"!", "%"} THEN ln ELSE <<"#", " ">> \o ln

\* insert the noqa comment if needed
NoqaLine(line, noqa) ==
    IF noqa # <<>> /\ ~StartsWith(line, <<"#">>) /\ line # <<"\n">>
       /\ EndsWith(line, <<"\n">>)
    THEN SubSeq(line, 1, Len(line) - 1) \o noqa
    ELSE IF noqa # <<>> /\ ~StartsWith(line, <<"#">>) /\ line # <<"\n">>
         THEN line \o SubSeq(noqa, 1, Len(noqa) - 1)
         ELSE line

\* what one source line of a scanned cell contributes to the script
ScriptLine(cl, ln) == NoqaLine(MagicLine(ln), noqa_comment(cl.source[1]))

\* what one scanned cell contributes to the script
CellBlock(cl) ==
    Concat([k \in 1..Len(cl.source) |-> ScriptLine(cl, cl.source[k])])
    \o Rep("\n", buffer_lines) \o separator

\* the loop over the cells: [code_cells, text], from cell index i on
RECURSIVE ExtractFrom(_, _)
ExtractFrom(cells, i) ==
    IF i >= Len(cells) THEN [code_cells |-> <<>>, text |-> <<>>]
    ELSE LET rest == ExtractFrom(cells, i + 1)
             cl == cells[i + 1]
         IN IF Scanned(cl)
            THEN [code_cells |-> <<i>> \o rest.code_cells,
                  text |-> CellBlock(cl) \o rest.text]
            ELSE rest

Extracted(cells) == ExtractFrom(cells, 0)

(***************************************************************************)
(* flake8, the external checker.  Its rules are not modelled: it may       *)
(* report any rule code at any line of the script, in line order, except   *)
(* where the line carries a noqa comment for that code.  One line of its   *)
(* output is a record of the colon-delimited fields; nfields < 4 is a line *)
(* that is not of the form file:line:col: code text.                       *)
(***************************************************************************)
Codes == {"E303", "W291"}

\* the position of the noqa word in a line, 0 for none
NoqaAt(line) ==
    IF \E k \in 1..Len(line) : line[k] = "noqa"
    THEN CHOOSE k \in 1..Len(line) : line[k] = "noqa" ELSE 0

\* "# noqa" silences every code, "# noqa: E303" the codes it lists
Silenced(line, code) ==
    /\ NoqaAt(line) > 0
    /\ \/ NoqaAt(line) = Len(line)
       \/ line[NoqaAt(line) + 1] # ":"
       \/ \E k \in (NoqaAt(line) + 1)..Len(line) : line[k] = code

WarnLine(l, c) == [nfields |-> 4, line |-> l, col |-> 1, code |-> c]

MalformedLine == [nfields |-> 1, line |-> 0, col |-> 0, code |-> ""]

Flake8Warnings(script) ==
    UNION {{WarnLine(l, c) : c \in {d \in Codes : ~Silenced(script[l], d)}} :
           l \in 1..Len(script)}

Flake8Outputs(script) ==
    {out \in UNION {[1..n -> Flake8Warnings(script)] : n \in 0..MaxWarns} :
        \A k \in 1..(Len(out) - 1) : out[k].line <= out[k + 1].line}

(***************************************************************************)
(* nb_flake8_magic.json, the companion configuration: the cells that       *)
(* enable interactive PEP8 feedback.  The third line of the third cell     *)
(* ends with the comma-separated list of the codes to ignore.              *)
(***************************************************************************)
MagicCell(src) ==
    [cell_type |-> "markdown", source |-> src, execution_count |-> 0,
     outputs |-> <<>>]

flake8_magic_cells ==
    << MagicCell(<< <<"t", "pep8", "\n">> >>),
       MagicCell(<< <<"t", "\n">> >>),
       MagicCell(<< <<"t", "\n">>, <<"t", "\n">>,
                    <<"%", "x", " ", "x", " ", "W291", ",", "W293", "\n">> >>) >>

\* str.split(sep) for a one-token separator; str.split() drops empty words
RECURSIVE SplitFrom(_, _, _, _)
SplitFrom(s, seps, cur, keep_empty) ==
    LET word == IF cur = <<>> /\ ~keep_empty THEN <<>> ELSE <<cur>>
    IN IF s = <<>> THEN word
       ELSE IF Head(s) \in seps
            THEN word \o SplitFrom(Tail(s), seps, <<>>, keep_empty)
            ELSE SplitFrom(Tail(s), seps, Append(cur, Head(s)), keep_empty)

Split(s) == SplitFrom(s, {" ", "\n"}, <<>>, FALSE)

SplitComma(s) == SplitFrom(s, {","}, <<>>, TRUE)

Last(s) == s[Len(s)]

codes_to_ignore ==
    SplitComma(Last(Split(Strip(flake8_magic_cells[3].source[3]))))

(***************************************************************************)
(* The warning filter.                                                     *)
(***************************************************************************)
\* warn_line.split(":")[3].split(" ")[0]: the empty text before the blank
pep8_code_token_0(warn_line) == <<>>

\* warn_line.split(":")[3].split(" ")[1]
pep8_code(warn_line) == <<warn_line.code>>

InList(x, list) == \E k \in 1..Len(list) : list[k] = x

lines_to_ignore(ws) ==
    {j \in 1..Len(ws) : InList(pep8_code(ws[j]), codes_to_ignore)}

RECURSIVE Without(_, _, _)
Without(ws, j, drop) ==
    IF j > Len(ws) THEN <<>>
    ELSE (IF j \in drop THEN <<>> ELSE <<ws[j]>>) \o Without(ws, j + 1, drop)

Filtered(ws) ==
    IF Cardinality(lines_to_ignore(ws)) > 0
    THEN Without(ws, 1, lines_to_ignore(ws)) ELSE ws

(***************************************************************************)
(* The line mapper.                                                        *)
(***************************************************************************)
IsBorder(ll) ==
    \E k \in 1..(Len(ll) - 2) :
        ll[k] = "#" /\ ll[k + 1] = identifier /\ ll[k + 2] = "#"

RECURSIVE BordersFrom(_, _)
BordersFrom(script, j) ==
    IF j > Len(script) THEN <<>>
    ELSE (IF IsBorder(script[j]) THEN <<j>> ELSE <<>>) \o BordersFrom(script, j + 1)

Borderlines(script) == BordersFrom(script, 1)

\* np.searchsorted(a, v): binary search, side = 'left'
RECURSIVE BinSearch(_, _, _, _)
BinSearch(a, v, lo, hi) ==
    IF lo >= hi THEN lo
    ELSE LET mid == (lo + hi) \div 2
         IN IF a[mid + 1] < v THEN BinSearch(a, v, mid + 1, hi)
            ELSE BinSearch(a, v, lo, mid)

searchsorted(a, v) == BinSearch(a, v, 0, Len(a))

\* one pass of the loop body for a warning at script line n; ok is FALSE
\* where code_cells[code_cell_num] raises (borderlines is never the shorter)
Mapped(borders, cells, n) ==
    LET code_cell_num == searchsorted(borders, n)
        ok == code_cell_num < Len(cells) /\ code_cell_num < Len(borders)
        borderline_num ==
            IF code_cell_num > 0 THEN borders[code_cell_num] ELSE 0
        next_borderline_num == borders[code_cell_num + 1]
    IN [ok |-> ok,
        code_cell_num |-> code_cell_num,
        all_cell_num |-> IF ok THEN cells[code_cell_num + 1] ELSE 0,
        line_in_cell |->
            IF ~ok THEN 0
            ELSE IF n # next_borderline_num THEN n - borderline_num
                 ELSE n - borderline_num - buffer_lines]

\* the text stored under the owning cell
nu_msg(pre, m, w) ==
    [pre |-> pre, line |-> m.line_in_cell, col |-> w.col, code |-> w.code]

\* what print mode prints for one warning
Printed(warn_num, n_warns, m, w, script) ==
    [kind |-> "warning", warn_num |-> warn_num, n_warns |-> n_warns,
     code_cell |-> m.code_cell_num + 1, nb_cell |-> m.all_cell_num + 1,
     line |-> m.line_in_cell, col |-> w.col,
     text |-> script[w.line], code |-> w.code]

\* the loop over the warnings, from warning k on
RECURSIVE MapLoop(_, _, _, _, _, _, _, _)
MapLoop(ws, k, script, borders, cells, pre, upd, acc) ==
    IF k > Len(ws) \/ ~acc.ok THEN acc
    ELSE LET w == ws[k]
             m == Mapped(borders, cells, w.line)
         IN IF ~m.ok THEN [acc EXCEPT !.ok = FALSE]
            ELSE MapLoop(ws, k + 1, script, borders, cells, pre, upd,
                    [ok |-> TRUE,
                     out |-> IF upd THEN acc.out
                             ELSE Append(acc.out, Printed(k, Len(ws), m, w, script)),
                     dict |-> [acc.dict EXCEPT ![m.all_cell_num + 1] =
                                  Append(@, nu_msg(pre, m, w))]])

(***************************************************************************)
(* The reporter, update mode.                                              *)
(***************************************************************************)
StreamOutput(text) == [name |-> "stderr", output_type |-> "stream", text |-> text]

\* clear any cell output, regardless of PEP8 status (0 stands for None)
ClearedCell(cell) ==
    [cell EXCEPT !.execution_count = IF @ # 0 THEN 0 ELSE @,
                 !.outputs = IF @ # <<>> THEN <<>> ELSE @]

\* the warnings put in before the outputs are cleared
InjectedCellThenCleared(cell, text) ==
    ClearedCell(IF text # <<>> THEN [cell EXCEPT !.outputs = <<StreamOutput(text)>>]
                ELSE cell)

\* inject PEP8 warnings into cells marked earlier
InjectedCell(cell, text) ==
    IF text # <<>> THEN [ClearedCell(cell) EXCEPT !.outputs = <<StreamOutput(text)>>]
    ELSE ClearedCell(cell)

MagicAbsent(cells, scanned) ==
    \A k \in 1..Len(scanned) :
        cells[scanned[k] + 1].source # flake8_magic_cells[1].source

InsertAt(cells, at, new) ==
    SubSeq(cells, 1, at) \o new \o SubSeq(cells, at + 1, Len(cells))

injected_nb(cells, dict, scanned) ==
    LET edited == [i \in 1..Len(cells) |-> InjectedCell(cells[i], dict[i])]
    IN IF MagicAbsent(cells, scanned)
       THEN InsertAt(edited, scanned[1], flake8_magic_cells)
       ELSE edited

(***************************************************************************)
(* The notebooks the runs start from: up to MaxCells cells, each one of    *)
(* the cells below.  Every source line but the last ends with a newline.   *)
(***************************************************************************)
CodeCell(src, count, outs) ==
    [cell_type |-> "code", source |-> src, execution_count |-> count,
     outputs |-> outs]

OldOutput == [name |-> "stdout", output_type |-> "stream", text |-> <<>>]

Directive == <<"#", " ", "flake8-ignore", ":", " ", "E303", "\n">>

CellPalette ==
    { [cell_type |-> "markdown", source |-> << <<"t">> >>,
       execution_count |-> 0, outputs |-> <<>>],
      CodeCell(<<>>, 0, <<>>),
      CodeCell(<< <<"\n">> >>, 0, <<>>),
      CodeCell(<< <<" ", "\n">> >>, 0, <<>>),
      CodeCell(<< <<"x", "\n">> >>, 1, <<OldOutput>>),
      CodeCell(<< <<"%", "x", "\n">>, <<"x">> >>, 0, <<>>),
      CodeCell(<< Directive, <<"x", "\n">>, <<"x">> >>, 1, <<>>),
      CodeCell(<< <<"#", identifier, "#", "\n">>, <<"x">> >>, 0, <<>>) }

Notebooks == UNION {[1..n -> CellPalette] : n \in 0..MaxCells}

NoAnswer == [any |-> FALSE, script |-> <<>>, out |-> <<>>]

PlainPalette ==
    {c \in CellPalette :
        \/ c.cell_type = "markdown"
        \/ c.source \in {<< <<"x", "\n">> >>, << <<"%", "x", "\n">>, <<"x">> >>}}

PlainNotebooks == UNION {[1..n -> PlainPalette] : n \in 0..MaxCells}

InitFrom(notebooks) ==
    /\ nb \in notebooks
    /\ pc = "start"
    /\ run = 1
    /\ argv \in [suffix_ok : BOOLEAN, update_notebook : BOOLEAN]
    /\ update_notebook = FALSE
    /\ og_nb = <<>>
    /\ code_file = Absent
    /\ warn_file = Absent
    /\ code_cells = <<>>
    /\ warns = <<>>
    /\ borderlines = <<>>
    /\ nu_output_dict = <<>>
    /\ stdout = <<>>
    /\ exit_status = -1
    /\ flake8_seen = NoAnswer
    /\ start_nb = nb
    /\ traceback = 0

Init == InitFrom(Notebooks)

InitPlain == InitFrom(PlainNotebooks)

(***************************************************************************)
(* The steps of one run.                                                   *)
(***************************************************************************)
\* an uncaught exception raised at source line at
Raise(at) ==
    /\ pc' = "aborted"
    /\ traceback' = at
    /\ exit_status' = 1

\* remove_temp_files(code_file, warn_file)
remove_temp_files ==
    /\ code_file' = (IF code_file.exists THEN Absent ELSE code_file)
    /\ warn_file' = (IF warn_file.exists THEN Absent ELSE warn_file)

\* the command line is parsed and the file extension checked
ParseArgs ==
    /\ pc = "start"
    /\ update_notebook' = argv.update_notebook
    /\ IF argv.suffix_ok
       THEN /\ pc' = "parsed"
            /\ UNCHANGED <<stdout, exit_status, traceback>>
       ELSE /\ stdout' = <<[kind |-> "help"]>>
            /\ Raise(76)
    /\ UNCHANGED <<nb, run, argv, og_nb, code_file, warn_file, code_cells, warns,
                   borderlines, nu_output_dict, flake8_seen, start_nb>>

\* the notebook is loaded and the code cells are written to the script
Extract ==
    /\ pc = "parsed"
    /\ og_nb' = nb
    /\ code_cells' = Extracted(nb).code_cells
    /\ code_file' = File(Extracted(nb).text)
    /\ pc' = "extracted"
    /\ UNCHANGED <<nb, run, argv, update_notebook, warn_file, warns, borderlines,
                   nu_output_dict,
                   stdout, exit_status, flake8_seen, start_nb,
                   traceback>>

Answered == flake8_seen.any /\ flake8_seen.script = code_file.data

\* flake8 runs on the script and its output is saved
RunFlake8 ==
    /\ pc = "extracted"
    /\ \E out \in (IF Answered THEN {flake8_seen.out}
                   ELSE Flake8Outputs(ReadLines(code_file.data))) :
        /\ warn_file' = File(out)
        /\ flake8_seen' = [any |-> TRUE, script |-> code_file.data, out |-> out]
    /\ pc' = "checked"
    /\ UNCHANGED <<nb, run, argv, update_notebook, og_nb, code_file, code_cells, warns,
                   borderlines, nu_output_dict, stdout, exit_status, start_nb,
                   traceback>>

\* flake8 is set up to print something else than file:line:col: code text
RunFlake8Malformed ==
    /\ pc = "extracted"
    /\ code_file.data # <<>>
    /\ ~Answered
    /\ warn_file' = File(<<MalformedLine>>)
    /\ flake8_seen' = [any |-> TRUE, script |-> code_file.data,
                       out |-> <<MalformedLine>>]
    /\ pc' = "checked"
    /\ UNCHANGED <<nb, run, argv, update_notebook, og_nb, code_file, code_cells, warns,
                   borderlines, nu_output_dict, stdout, exit_status, start_nb,
                   traceback>>

\* nb_flake8_magic.json cannot be opened
ConfigUnreadable ==
    /\ pc = "checked"
    /\ warns' = warn_file.data
    /\ Raise(144)
    /\ UNCHANGED <<nb, run, argv, update_notebook, og_nb, code_file, warn_file,
                   code_cells, borderlines, nu_output_dict, stdout, flake8_seen,
                   start_nb>>

\* the warnings are read and filtered; the run ends here if none is left
FilterWarnings ==
    /\ pc = "checked"
    /\ IF \E j \in 1..Len(warn_file.data) : warn_file.data[j].nfields < 4
       THEN /\ warns' = warn_file.data
            /\ Raise(153)
            /\ UNCHANGED <<code_file, warn_file, stdout>>
       ELSE /\ warns' = Filtered(warn_file.data)
            /\ IF Filtered(warn_file.data) = <<>>
               THEN /\ stdout' = <<[kind |-> "clean"]>>
                    /\ remove_temp_files
                    /\ pc' = "done"
                    /\ exit_status' = 0
                    /\ UNCHANGED traceback
               ELSE /\ pc' = "filtered"
                    /\ UNCHANGED <<code_file, warn_file, stdout, exit_status,
                                   traceback>>
    /\ UNCHANGED <<nb, run, argv, update_notebook, og_nb, code_cells, borderlines,
                   nu_output_dict, flake8_seen, start_nb>>

\* every warning is mapped to its cell (and printed, in print mode)
MapWarnings ==
    /\ pc = "filtered"
    /\ LET script == ReadLines(code_file.data)
           r == MapLoop(warns, 1, script, Borderlines(script), code_cells, run,
                        update_notebook,
                        [ok |-> TRUE, out |-> <<>>,
                         dict |-> [i \in 1..Len(og_nb) |-> <<>>]])
       IN /\ borderlines' = Borderlines(script)
          /\ stdout' = r.out
          /\ nu_output_dict' = r.dict
          /\ IF r.ok
             THEN pc' = "mapped" /\ UNCHANGED <<exit_status, traceback>>
             ELSE Raise(192)
    /\ UNCHANGED <<nb, run, argv, update_notebook, og_nb, code_file, warn_file,
                   code_cells, warns, flake8_seen, start_nb>>

\* update mode: the notebook is rewritten with the warnings
UpdateNotebook ==
    /\ pc = "mapped"
    /\ update_notebook
    /\ nb' = injected_nb(og_nb, nu_output_dict, code_cells)
    /\ remove_temp_files
    /\ pc' = "done"
    /\ exit_status' = 0
    /\ UNCHANGED <<run, argv, update_notebook, og_nb, code_cells, warns, borderlines,
                   nu_output_dict, stdout, flake8_seen, start_nb, traceback>>

\* print mode: exit with code 99
PrintExit ==
    /\ pc = "mapped"
    /\ ~update_notebook
    /\ pc' = "done"
    /\ exit_status' = 99
    /\ UNCHANGED <<nb, run, argv, update_notebook, og_nb, code_file, warn_file,
                   code_cells, warns, borderlines, nu_output_dict, stdout,
                   flake8_seen, start_nb, traceback>>

\* the same command is run again on the notebook it has just rewritten
Restart ==
    /\ pc = "done"
    /\ update_notebook
    /\ warns # <<>>
    /\ run < MaxRuns
    /\ run' = run + 1
    /\ start_nb' = nb
    /\ pc' = "start"
    /\ update_notebook' = FALSE
    /\ og_nb' = <<>>
    /\ code_cells' = <<>>
    /\ warns' = <<>>
    /\ borderlines' = <<>>
    /\ nu_output_dict' = <<>>
    /\ stdout' = <<>>
    /\ exit_status' = -1
    /\ UNCHANGED <<nb, argv, code_file, warn_file, flake8_seen,
                   traceback>>

Next ==
    \/ ParseArgs
    \/ Extract
    \/ RunFlake8
    \/ RunFlake8Malformed
    \/ ConfigUnreadable
    \/ FilterWarnings
    \/ MapWarnings
    \/ UpdateNotebook
    \/ PrintExit
    \/ Restart

Spec == Init /\ [][Next]_vars

\* the same runs, on notebooks of markdown cells and plain code cells only
SpecPlain == InitPlain /\ [][Next]_vars

(***************************************************************************)
(* Notions the properties are stated in.                                   *)
(***************************************************************************)
Terminated == pc \in {"done", "aborted"}

\* the run got past the warning filter
FilterDone ==
    \/ pc \in {"filtered", "mapped", "done"}
    \/ pc = "aborted" /\ traceback = 192

\* the run rewrote the notebook
Updated == pc = "done" /\ update_notebook /\ warns # <<>>

IgnoredCode(c) == \E k \in 1..Len(codes_to_ignore) : codes_to_ignore[k] = <<c>>

Survives(w) == ~IgnoredCode(w.code)

RECURSIVE SumUpTo(_, _)
SumUpTo(f, k) == IF k = 0 THEN 0 ELSE f[k] + SumUpTo(f, k - 1)

\* the notebook cell the k-th block of the script was written from
BlockCell(k) == og_nb[code_cells[k] + 1]

\* the number of script lines of the k-th block, separator included
BlockLen(k) == Len(ReadLines(CellBlock(BlockCell(k))))

\* the script line of the separator that closes the k-th block, 0 for k = 0
BlockEnd(k) == SumUpTo([j \in 1..Len(code_cells) |-> BlockLen(j)], k)

\* the warning texts of a cell's stderr outputs
RECURSIVE StderrTexts(_)
StderrTexts(outs) ==
    IF outs = <<>> THEN <<>>
    ELSE (IF Head(outs).name = "stderr" THEN Head(outs).text ELSE <<>>)
         \o StderrTexts(Tail(outs))

SeqRange(q) == {q[k] : k \in 1..Len(q)}

(***************************************************************************)
(* C1: every intra-cell line number the line mapper computes is >= 1 and   *)
(* <= the number of source lines of the cell the warning is attributed to. *)
(***************************************************************************)
C1_LineInCellInRange ==
    \A i \in 1..Len(nu_output_dict) :
        \A k \in 1..Len(nu_output_dict[i]) :
            /\ nu_output_dict[i][k].line >= 1
            /\ nu_output_dict[i][k].line <= Len(og_nb[i].source)

(***************************************************************************)
(* C2: the exit status is 99 exactly when the run is in print mode and a   *)
(* warning survives the filter; it is 0 when none survives and when update *)
(* mode completes; a wrong file extension raises before anything is        *)
(* written.                                                                *)
(***************************************************************************)
C2_ExitStatus ==
    Terminated =>
        /\ exit_status = 99 <=> (FilterDone /\ ~update_notebook /\ warns # <<>>)
        /\ (FilterDone /\ warns = <<>>) => exit_status = 0
        /\ Updated => exit_status = 0
        /\ ~argv.suffix_ok =>
              /\ traceback = 76
              /\ ~code_file.exists /\ ~warn_file.exists /\ nb = start_nb

(***************************************************************************)
(* C3: no warning with a code of the ignore list is printed or injected;   *)
(* the warnings with other codes survive in their original order; when all *)
(* are ignored the run reports clean, removes the temporary files and      *)
(* exits with 0 without touching the notebook.                             *)
(***************************************************************************)
C3_IgnoreListFilter ==
    FilterDone =>
        /\ warns = SelectSeq(flake8_seen.out, Survives)
        /\ \A k \in 1..Len(stdout) :
               stdout[k].kind = "warning" => ~IgnoredCode(stdout[k].code)
        /\ \A i \in 1..Len(nb) :
               \A m \in SeqRange(StderrTexts(nb[i].outputs)) : ~IgnoredCode(m.code)
        /\ (\A w \in SeqRange(flake8_seen.out) : IgnoredCode(w.code)) =>
               /\ pc = "done" /\ exit_status = 0
               /\ stdout = <<[kind |-> "clean"]>>
               /\ ~code_file.exists /\ ~warn_file.exists
               /\ nb = start_nb

\* a warning was dropped and another one kept and reported
C3_Witness ==
    /\ pc = "done" /\ exit_status = 99
    /\ Len(flake8_seen.out) = 2
    /\ IgnoredCode(flake8_seen.out[1].code)
    /\ ~IgnoredCode(flake8_seen.out[2].code)
    /\ Len(stdout) = 1

(***************************************************************************)
(* C4: when no cell is a code cell with a line that holds a non-whitespace *)
(* character, no cell is selected, the script is empty, the run reports    *)
(* clean with exit status 0 and the notebook file is unchanged.            *)
(***************************************************************************)
BlankCell(cl) ==
    cl.cell_type = "code" => \A k \in 1..Len(cl.source) : Strip(cl.source[k]) = <<>>

C4_BlankNotebookClean ==
    (pc \notin {"start", "parsed"} /\ traceback # 76
     /\ \A i \in 1..Len(og_nb) : BlankCell(og_nb[i])) =>
        /\ code_cells = <<>>
        /\ code_file.exists => code_file.data = <<>>
        /\ (Terminated /\ traceback = 0) =>
               /\ stdout = <<[kind |-> "clean"]>> /\ exit_status = 0
        /\ nb = start_nb

(***************************************************************************)
(* C5: in a cell whose first line is an ignore directive, no warning with  *)
(* a code the directive names, attributed to that cell, is reported.       *)
(***************************************************************************)
C5_DirectiveSuppresses ==
    \A i \in 1..Len(nu_output_dict) :
        (og_nb[i].source # <<>> /\ noqa_check(og_nb[i].source[1]) > 0) =>
            \A k \in 1..Len(nu_output_dict[i]) :
                nu_output_dict[i][k].code \notin SeqRange(og_nb[i].source[1])

(***************************************************************************)
(* C6: a second update run with the same warnings leaves the notebook as   *)
(* the first one wrote it (timestamps aside), with one copy of the marker  *)
(* cells.                                                                  *)
(***************************************************************************)
NoPre(cells) ==
    [i \in 1..Len(cells) |->
        [cells[i] EXCEPT !.outputs =
            [j \in 1..Len(@) |->
                [@[j] EXCEPT !.text = [k \in 1..Len(@) |-> [@[k] EXCEPT !.pre = 0]]]]]]

MarkerCopies(cells) ==
    Cardinality({i \in 1..Len(cells) :
                    cells[i].source = flake8_magic_cells[1].source})

C6_UpdateIdempotent ==
    (Updated /\ run > 1) =>
        /\ NoPre(nb) = NoPre(start_nb)
        /\ MarkerCopies(nb) = 1

(***************************************************************************)
(* C7: when a run ends after the temporary files were created, both are    *)
(* gone, unless it is the print-mode exit with status 99.                  *)
(***************************************************************************)
C7_TempFilesRemoved ==
    (Terminated /\ traceback # 76 /\ exit_status # 99) =>
        ~code_file.exists /\ ~warn_file.exists

(***************************************************************************)
(* C8: a warning at a source line of the i-th block is attributed to block *)
(* i and cell code_cells[i], at the line's position in the cell; one at    *)
(* the block's closing separator to the same block, minus the buffer.      *)
(***************************************************************************)
C8_BlockAttribution ==
    (pc = "mapped" \/ (pc = "aborted" /\ traceback = 192)) =>
        \A j \in 1..Len(warns) : \A k \in 1..Len(code_cells) :
            LET n == warns[j].line
                m == Mapped(borderlines, code_cells, n)
                in_source == BlockEnd(k - 1) < n
                             /\ n <= BlockEnd(k - 1) + Len(BlockCell(k).source)
            IN (in_source \/ n = BlockEnd(k)) =>
                   /\ m.ok
                   /\ m.code_cell_num = k - 1
                   /\ m.all_cell_num = code_cells[k]
                   /\ in_source => m.line_in_cell = n - BlockEnd(k - 1)
                   /\ n = BlockEnd(k) =>
                          m.line_in_cell = n - BlockEnd(k - 1) - buffer_lines

(***************************************************************************)
(* C9: borderlines is as long as code_cells, strictly increasing, and its  *)
(* i-th entry is the line of the separator closing the i-th block.         *)
(***************************************************************************)
C9_BorderlinesMatchBlocks ==
    (pc = "mapped" \/ (pc = "aborted" /\ traceback = 192)) =>
        /\ Len(borderlines) = Len(code_cells)
        /\ \A k \in 1..(Len(borderlines) - 1) : borderlines[k] < borderlines[k + 1]
        /\ \A k \in 1..Len(borderlines) :
               k <= Len(code_cells) => borderlines[k] = BlockEnd(k)

(***************************************************************************)
(* C10: the notebook an update run writes holds every original cell with   *)
(* its execution count and old outputs cleared; a cell that owns surviving *)
(* warnings carries one stream output with exactly these, in the order of  *)
(* the checker's output; the other cells have no outputs; the marker cells *)
(* do not move the outputs to other cells.                                 *)
(***************************************************************************)
\* the texts of the surviving warnings the mapper attributes to cell i
OwnedBy(i) ==
    LET owner(w) == Mapped(borderlines, code_cells, w.line)
        mine(w) == owner(w).all_cell_num = i - 1
        own == SelectSeq(warns, mine)
    IN [k \in 1..Len(own) |-> nu_msg(run, owner(own[k]), own[k])]

\* where the original cell i is in the written notebook
WrittenAt(i) ==
    IF Len(nb) > Len(og_nb) /\ i > code_cells[1]
    THEN i + Len(flake8_magic_cells) ELSE i

C10_UpdateWritesWarnings ==
    Updated =>
        /\ Len(nb) \in {Len(og_nb), Len(og_nb) + Len(flake8_magic_cells)}
        /\ Len(nb) > Len(og_nb) =>
               SubSeq(nb, code_cells[1] + 1, code_cells[1] + Len(flake8_magic_cells))
                   = flake8_magic_cells
        /\ \A i \in 1..Len(og_nb) :
               LET cell == nb[WrittenAt(i)]
               IN /\ cell.cell_type = og_nb[i].cell_type
                  /\ cell.source = og_nb[i].source
                  /\ cell.execution_count = 0
                  /\ cell.outputs = IF OwnedBy(i) = <<>> THEN <<>>
                                    ELSE <<StreamOutput(OwnedBy(i))>>

\* the markers were put after a first cell, and the cell behind them had
\* old outputs and got two warnings
C10_Witness ==
    /\ Updated
    /\ Len(nb) > Len(og_nb) /\ code_cells[1] > 0
    /\ \E i \in 1..Len(og_nb) : og_nb[i].outputs # <<>> /\ Len(OwnedBy(i)) = 2

====
